---------------------------- MODULE Spec2Model ----------------------------
(***************************************************************************)
(* Reversible ("dancing") linked lists of dancing-links-rust.              *)
(*                                                                         *)
(*  - src/src/lists.rs : the Item Ring, an array of ItemNode indexed by    *)
(*    position with the sentinel at index 0, and the Item cursor.          *)
(*  - src/src/list.rs  : the generic intrusive list over Link slots.       *)
(*                                                                         *)
(* usize values are modelled as integers.  The only value outside 0..size  *)
(* that the code ever produces is 0usize.wrapping_sub(1) = usize::MAX,     *)
(* which is represented by its residue -1 (UsizeMax).                      *)
(***************************************************************************)
EXTENDS Integers, Sequences, FiniteSets, TLC

\* ------------------------------------------------------------------ bounds
\* Largest ring whose items may all be removed at once.
MaxN == 3
\* How many out-of-contract calls (remove of a node that is not a live item,
\* reinsert of a node that is not removed) a run may make.
MaxMisuse == 1
\* The generic list's nodes are 0..MaxListNodes.
MaxListNodes == 2
\* The items 1..ScenarioDepth of the test-sized ring may be removed, in any
\* order.
ScenarioDepth == 2

\* -------------------------------------------------------- program constants
\* Items::new(7) of the tests.
TestSize == 7
\* 0usize.wrapping_sub(1), as a residue.
UsizeMax == -1

Sizes == (0..MaxN) \cup {TestSize}

VARIABLES
    n,        \* size given to Items::new
    nodes,    \* Items.nodes : 0..n -> ItemNode
    item,     \* the Item cursor currently borrowed from the ring, if any
    stack,    \* history: items removed and not yet reinserted, oldest first,
              \* each with the nodes array as it was before its removal
    episode,  \* history: the removals since the ring last had no removed item
    nested,   \* history: every reinsert so far undid the latest removal
    misuse,   \* history: number of out-of-contract calls so far
    last,     \* history: the last remove or reinsert call
    res,      \* history: the last call of any kind and its outcome
    born,     \* history: the cursor's node and that node's previous and next
              \* when the cursor was made, how often next() has advanced it,
              \* and whether the ring is still as it was then
    link,     \* list.rs: each node's Link, a pair of Option slots
    lstack,   \* history: list nodes removed and not yet reinserted
    touched,  \* history: nodes connect_self was called on or prepend was given
    lres,     \* history: the last call on the list and its outcome
    sized,    \* list.rs tests: the nodes are SizedList (hooks that count on
              \* the header) and not List (the default hooks)
    headerSize, \* list.rs tests: Header.size, the counter of the hooks
    built     \* history: the header, the nodes prepended to it in order, and
              \* whether every call so far kept to the list built on one header

rvars == <<n, nodes, item, stack, episode, nested, misuse, last, res, born>>

lvars == <<link, lstack, touched, lres, sized, headerSize, built>>

vars == <<rvars, lvars>>

\* ---------------------------------------------------------------- lists.rs

\* usize::wrapping_sub(index, 1)
WrappingSub1(index) == IF index = 0 THEN UsizeMax ELSE index - 1

\* usize::wrapping_add(index, 1); index + 1 <= size + 1 never wraps
WrappingAdd1(index) == index + 1

\* Mutant of Items::new: the sentinel's previous is left as the loop wrote it.
ItemsNewNoWrapFix(size) ==
    LET looped == [index \in 0..size |->
                      [previous |-> WrappingSub1(index),
                       next     |-> WrappingAdd1(index)]]
        len    == size + 1
    IN  [looped EXCEPT ![len - 1].next = 0]

\* Items::new
ItemsNew(size) ==
    LET looped == [index \in 0..size |->
                      [previous |-> WrappingSub1(index),
                       next     |-> WrappingAdd1(index)]]
        len    == size + 1
        first  == [looped EXCEPT ![0].previous = len - 1]
    IN  [first EXCEPT ![len - 1].next = 0]

\* Index::new(i): NonZeroUsize::new, None for 0
IndexNew(i) == IF i = 0 THEN [some |-> FALSE, get |-> 0]
                        ELSE [some |-> TRUE, get |-> i]

\* Mutant of Items::items: the traversal starts at the sentinel's successor.
ItemsItemsFromSuccessor(nds) ==
    [held |-> TRUE, current |-> nds[0].next, end |-> nds[0].previous]

\* Items::items
ItemsItems(nds) == [held |-> TRUE, current |-> 0, end |-> nds[0].previous]

\* Mutant of Items::item: end is the node's next.
ItemsItemEndAtNext(nds, index) ==
    [held |-> TRUE, current |-> index, end |-> nds[index].next]

\* Items::item
ItemsItem(nds, index) ==
    [held |-> TRUE, current |-> index, end |-> nds[index].previous]

\* Mutant of Item::remove: the successor's previous is not redirected.
ItemRemoveOneSided(nds, it) ==
    LET previous == nds[it.current].previous
        next     == nds[it.current].next
    IN  [nds EXCEPT ![previous].next = next]

\* Mutant of Item::remove: the removed node is unlinked for good, its own
\* previous and next reset to itself.
ItemRemoveUnlink(nds, it) ==
    LET previous == nds[it.current].previous
        next     == nds[it.current].next
        w1       == [nds EXCEPT ![previous].next = next]
        w2       == [w1 EXCEPT ![next].previous = previous]
    IN  [w2 EXCEPT ![it.current] =
                       [previous |-> it.current, next |-> it.current]]

\* Item::remove; previous and next are read through Deref, from
\* list[self.current], when remove is called
ItemRemove(nds, it) ==
    LET previous == nds[it.current].previous
        next     == nds[it.current].next
        w1       == [nds EXCEPT ![previous].next = next]
    IN  [w1 EXCEPT ![next].previous = previous]

\* Mutant of Item::reinsert: the successor's previous is not redirected.
ItemReinsertOneSided(nds, it) ==
    LET previous == nds[it.current].previous
        next     == nds[it.current].next
    IN  [nds EXCEPT ![previous].next = it.current]

\* Mutant of Item::reinsert: the body of remove.
ItemReinsertAsRemove(nds, it) ==
    LET previous == nds[it.current].previous
        next     == nds[it.current].next
        w1       == [nds EXCEPT ![previous].next = next]
    IN  [w1 EXCEPT ![next].previous = previous]

\* Mutant of Item::reinsert: the second write goes to the successor's next.
ItemReinsertWrongField(nds, it) ==
    LET previous == nds[it.current].previous
        next     == nds[it.current].next
        w1       == [nds EXCEPT ![previous].next = it.current]
    IN  [w1 EXCEPT ![next].next = it.current]

\* Mutant of Item::reinsert: the predecessor's next is not redirected.
ItemReinsertPreviousOnly(nds, it) ==
    LET previous == nds[it.current].previous
        next     == nds[it.current].next
    IN  [nds EXCEPT ![next].previous = it.current]

\* Mutant of Item::reinsert: previous is taken from the cursor's end field,
\* the previous of the node the cursor was made at.
ItemReinsertFromEnd(nds, it) ==
    LET previous == it.end
        next     == nds[it.current].next
        w1       == [nds EXCEPT ![previous].next = it.current]
    IN  [w1 EXCEPT ![next].previous = it.current]

\* Item::reinsert
ItemReinsert(nds, it) ==
    LET previous == nds[it.current].previous
        next     == nds[it.current].next
        w1       == [nds EXCEPT ![previous].next = it.current]
    IN  [w1 EXCEPT ![next].previous = it.current]

\* Mutant of Iterator::next: the end is tested on the node moved to.
IteratorNextEarlyEnd(nds, it) ==
    IF nds[it.current].next = it.end
    THEN [item |-> it, out |-> "None"]
    ELSE [item |-> [it EXCEPT !.current = nds[it.current].next], out |-> "Some"]

\* Iterator::next for Item
IteratorNext(nds, it) ==
    IF it.current = it.end
    THEN [item |-> it, out |-> "None"]
    ELSE [item |-> [it EXCEPT !.current = nds[it.current].next], out |-> "Some"]

\* Iterator::count: calls next until None.  A traversal that has not ended
\* after fuel steps never ends (Diverges).
Diverges == -1

RECURSIVE CountFrom(_, _, _)
CountFrom(nds, it, fuel) ==
    LET r == IteratorNext(nds, it)
    IN  IF r.out = "None" THEN 0
        ELSE IF fuel = 0 THEN Diverges
        ELSE LET rest == CountFrom(nds, r.item, fuel - 1)
             IN  IF rest = Diverges THEN Diverges ELSE rest + 1

\* items().count()
ItemsCount(nds) == CountFrom(nds, ItemsItems(nds), Cardinality(DOMAIN nds))

\* ------------------------------------------------------------------ list.rs

ListNodes == 0..MaxListNodes

\* Option<&Node>
None == [some |-> FALSE, ref |-> 0]

Some(x) == [some |-> TRUE, ref |-> x]

\* Link::uninitialized
LinkUninitialized == [next |-> None, previous |-> None]

\* Mutant of LinkedList::next: unwrap_unchecked, here yielding the node
\* itself for an empty slot.
LinkedListNextUnchecked(lk, self) ==
    [panic |-> FALSE,
     ref   |-> IF lk[self].next.some THEN lk[self].next.ref ELSE self]

\* LinkedList::next: link().next.get().unwrap()
LinkedListNext(lk, self) ==
    [panic |-> ~lk[self].next.some, ref |-> lk[self].next.ref]

\* LinkedList::previous: link().previous.get().unwrap()
LinkedListPrevious(lk, self) ==
    [panic |-> ~lk[self].previous.some, ref |-> lk[self].previous.ref]

\* LinkedList::set_next
SetNext(lk, self, node) == [lk EXCEPT ![self].next = Some(node)]

\* LinkedList::set_previous
SetPrevious(lk, self, node) == [lk EXCEPT ![self].previous = Some(node)]

\* What a call leaves: the links, how it ended, and the value it returned.
Panicked(lk) == [lk |-> lk, out |-> "panic", val |-> 0]

Returned(lk, val) == [lk |-> lk, out |-> "ok", val |-> val]

Bool(b) == IF b THEN 1 ELSE 0

\* LinkedList::connect_self
ConnectSelf(lk, self) ==
    Returned(SetPrevious(SetNext(lk, self, self), self, self), 0)

\* SizedList::grow: size + 1.  The counter holds usize::MAX only after a
\* wrapping shrink, that is in a build without overflow checks, where the
\* addition wraps to 0.
Grow(sz) == IF sz = UsizeMax THEN 0 ELSE sz + 1

\* Mutant of SizedList::shrink: the decreased size is not stored.
ShrinkNotStored(sz) == {[panic |-> FALSE, size |-> sz]}

\* SizedList::shrink: size - 1.  On 0 the subtraction panics in a build with
\* overflow checks and wraps to usize::MAX in a build without.
Shrink(sz) ==
    IF sz = 0 THEN {[panic |-> TRUE, size |-> sz],
                    [panic |-> FALSE, size |-> UsizeMax]}
    ELSE {[panic |-> FALSE, size |-> sz - 1]}

\* Mutant of LinkedList::prepend: the old last node's next is not redirected.
PrependOneSided(lk, self, node) ==
    LET p1 == LinkedListPrevious(lk, self)
    IN  IF p1.panic THEN Panicked(lk)
        ELSE LET lk1 == SetPrevious(lk, node, p1.ref)
                 lk2 == SetNext(lk1, node, self)
             IN  Returned(SetPrevious(lk2, self, node), 0)

\* LinkedList::prepend after its call of grow
Prepend(lk, self, node) ==
    LET p1 == LinkedListPrevious(lk, self)
    IN  IF p1.panic THEN Panicked(lk)
        ELSE LET lk1 == SetPrevious(lk, node, p1.ref)
                 lk2 == SetNext(lk1, node, self)
                 p2  == LinkedListPrevious(lk2, self)
             IN  IF p2.panic THEN Panicked(lk2)
                 ELSE Returned(SetPrevious(SetNext(lk2, p2.ref, node),
                                           self, node), 0)

\* Mutant of LinkedList::remove: the predecessor's next is not redirected.
LinkedListRemoveOneSided(lk, self) ==
    LET n1 == LinkedListNext(lk, self)
        p1 == LinkedListPrevious(lk, self)
    IN  IF n1.panic \/ p1.panic THEN Panicked(lk)
        ELSE Returned(SetPrevious(lk, n1.ref, p1.ref), 0)

\* LinkedList::remove after its call of shrink
LinkedListRemove(lk, self) ==
    LET n1 == LinkedListNext(lk, self)
        p1 == LinkedListPrevious(lk, self)
    IN  IF n1.panic \/ p1.panic THEN Panicked(lk)
        ELSE LET lk1 == SetPrevious(lk, n1.ref, p1.ref)
                 p2  == LinkedListPrevious(lk1, self)
                 n2  == LinkedListNext(lk1, self)
             IN  IF p2.panic \/ n2.panic THEN Panicked(lk1)
                 ELSE Returned(SetNext(lk1, p2.ref, n2.ref), 0)

\* Mutant of LinkedList::reinsert: the predecessor's next is not redirected.
LinkedListReinsertOneSided(lk, self) ==
    LET n1 == LinkedListNext(lk, self)
    IN  IF n1.panic THEN Panicked(lk)
        ELSE Returned(SetPrevious(lk, n1.ref, self), 0)

\* LinkedList::reinsert after its call of grow
LinkedListReinsert(lk, self) ==
    LET n1 == LinkedListNext(lk, self)
    IN  IF n1.panic THEN Panicked(lk)
        ELSE LET lk1 == SetPrevious(lk, n1.ref, self)
                 p1  == LinkedListPrevious(lk1, self)
             IN  IF p1.panic THEN Panicked(lk1)
                 ELSE Returned(SetNext(lk1, p1.ref, self), 0)

\* Mutant of LinkedList::is_empty: next and previous are compared with each
\* other and not with the node.
IsEmptyNeighboursEqual(lk, self) ==
    LET n1 == LinkedListNext(lk, self)
        p1 == LinkedListPrevious(lk, self)
    IN  IF n1.panic \/ p1.panic THEN Panicked(lk)
        ELSE Returned(lk, Bool(n1.ref = p1.ref))

\* LinkedList::is_empty; && reads previous only when next is the node itself
IsEmpty(lk, self) ==
    LET n1 == LinkedListNext(lk, self)
    IN  IF n1.panic THEN Panicked(lk)
        ELSE IF n1.ref # self THEN Returned(lk, Bool(FALSE))
        ELSE LET p1 == LinkedListPrevious(lk, self)
             IN  IF p1.panic THEN Panicked(lk)
                 ELSE Returned(lk, Bool(p1.ref = self))

\* LinkedList::is_valid
IsValid(lk, self) == lk[self].next.some /\ lk[self].previous.some

\* --------------------------------------------------------------- history

NoItem == [held |-> FALSE, current |-> 0, end |-> 0]

Removed == {stack[i].k : i \in 1..Len(stack)}

Live == (0..n) \ Removed

Without(s, k) == SelectSeq(s, LAMBDA e : e.k # k)

Entry(k) == stack[CHOOSE i \in 1..Len(stack) : stack[i].k = k]

\* The removed items, oldest first.
Ks == [i \in 1..Len(stack) |-> stack[i].k]

\* The rings up to MaxN are explored in full.  Of the test-sized ring the
\* items 1..ScenarioDepth are removed, in any order, and reinserted in stack
\* order, without out-of-contract calls; beside that the ring is emptied and
\* filled as the test emptyable does it.
DepthBound == IF n <= MaxN THEN n ELSE ScenarioDepth

\* The test emptyable's first loop: on the fresh ring, with items 1..k-1
\* removed and nothing reinserted yet, item k is removed.
Emptying(k) ==
    /\ n = TestSize
    /\ k = Len(stack) + 1
    /\ Ks = [i \in 1..Len(stack) |-> i]
    /\ stack # <<>> => /\ episode.phased /\ ~episode.reinserting
                       /\ episode.base = ItemsNew(n)

\* The test emptyable's second loop: with every item removed as by the first
\* loop and items 1..k-1 back, item k is reinserted.
Filling(k) ==
    /\ n = TestSize
    /\ episode.phased /\ episode.base = ItemsNew(n)
    /\ episode.removes = [i \in 1..n |-> i]
    /\ episode.reinserts = [i \in 1..(k - 1) |-> i]

MisuseBound == IF n <= MaxN THEN MaxMisuse ELSE 0

\* The record of a remove or reinsert call: pre is the nodes array before it,
\* prior the remove or reinsert call before it, undone (for a reinsert of a
\* removed item) the nodes array before that item's removal.
Call(op, arg, undone) ==
    [op |-> op, arg |-> arg, pre |-> nodes,
     prior |-> [op |-> last.op, arg |-> last.arg], undone |-> undone]

\* The record of any call: its argument, its outcome and the nodes array
\* before it.
Outcome(op, arg, out) == [op |-> op, arg |-> arg, out |-> out, pre |-> nodes]

\* The history of the cursor made by Items::items or Items::item at node k.
Born(k) ==
    [current |-> k, previous |-> nodes[k].previous, next |-> nodes[k].next,
     steps |-> 0, intact |-> TRUE]

NewEpisode(k) ==
    [base |-> nodes, reverse |-> TRUE, phased |-> TRUE, reinserting |-> FALSE,
     removes |-> <<k>>, reinserts |-> <<>>]

\* The nodes prepended to the header so far.
Members == {built.order[i] : i \in 1..Len(built.order)}

\* The history of a run that left the list built on one header: nothing of
\* it is kept.
NoList ==
    [header |-> None, order |-> <<>>, clean |-> FALSE, mixed |-> FALSE,
     stale |-> FALSE, base |-> [x \in ListNodes |-> LinkUninitialized],
     depth |-> 0]

\* ----------------------------------------------------------------- actions

RingInit(sizes) ==
    /\ n \in sizes
    /\ nodes = ItemsNew(n)
    /\ item = NoItem
    /\ stack = <<>>
    /\ episode = [base |-> nodes, reverse |-> TRUE, phased |-> TRUE,
                  reinserting |-> FALSE, removes |-> <<>>, reinserts |-> <<>>]
    /\ nested = TRUE
    /\ misuse = 0
    /\ last = [op |-> "new", arg |-> n, pre |-> nodes,
               prior |-> [op |-> "new", arg |-> n], undone |-> nodes]
    /\ res = Outcome("new", n, "ok")
    /\ born = Born(0)

ListInit(types) ==
    /\ sized \in types
    /\ link = [x \in ListNodes |-> LinkUninitialized]
    /\ lstack = <<>>
    /\ touched = {}
    /\ headerSize = 0
    /\ lres = [op |-> "uninitialized", self |-> 0, arg |-> 0, out |-> "ok",
               val |-> 0, pre |-> link, size |-> headerSize]
    /\ built = [NoList EXCEPT !.clean = TRUE]

Init == RingInit(Sizes) /\ ListInit({FALSE})

\* ring.items()
Items ==
    /\ item' = ItemsItems(nodes)
    /\ res' = Outcome("items", 0, "ok")
    /\ born' = Born(0)
    /\ UNCHANGED <<n, nodes, stack, episode, nested, misuse, last, lvars>>

\* ring.item(Index::new(i).unwrap()): panics on i = 0 (unwrap of None) and on
\* i > n (slice index out of bounds)
ItemAt ==
    \E i \in 0..(n + 1) :
        /\ IF ~IndexNew(i).some \/ IndexNew(i).get \notin DOMAIN nodes
           THEN /\ res' = Outcome("item", i, "panic")
                /\ UNCHANGED <<item, born>>
           ELSE /\ res' = Outcome("item", i, "ok")
                /\ item' = ItemsItem(nodes, IndexNew(i).get)
                /\ born' = Born(IndexNew(i).get)
        /\ UNCHANGED <<n, nodes, stack, episode, nested, misuse, last, lvars>>

\* cursor.next(); the advances are counted up to n + 1, more than a
\* traversal that ends takes
Next_ ==
    /\ item.held
    /\ LET r == IteratorNext(nodes, item)
       IN  /\ item' = r.item
           /\ res' = Outcome("next", item.current, r.out)
           /\ born' = IF r.out = "Some" /\ born.steps <= n
                       THEN [born EXCEPT !.steps = @ + 1]
                       ELSE born
    /\ UNCHANGED <<n, nodes, stack, episode, nested, misuse, last, lvars>>

\* cursor.remove() on a live item
RemoveCursor ==
    /\ item.held
    /\ item.current # 0
    /\ item.current \notin Removed
    /\ \/ Len(stack) < DepthBound /\ (n <= MaxN \/ item.current <= ScenarioDepth)
       \/ Emptying(item.current)
    /\ nested /\ misuse = 0
    /\ nodes' = ItemRemove(nodes, item)
    /\ stack' = Append(stack, [k |-> item.current, before |-> nodes])
    /\ episode' = IF stack = <<>>
                  THEN NewEpisode(item.current)
                  ELSE IF episode.phased /\ ~episode.reinserting
                  THEN [episode EXCEPT !.removes = Append(@, item.current)]
                  ELSE [episode EXCEPT !.phased = FALSE, !.removes = <<>>,
                                       !.reinserts = <<>>]
    /\ last' = Call("remove", item.current, nodes)
    /\ res' = Outcome("remove", item.current, "ok")
    /\ born' = [born EXCEPT !.intact = FALSE]
    /\ UNCHANGED <<n, item, nested, misuse>>

Remove == RemoveCursor /\ UNCHANGED lvars

\* cursor.reinsert() on a removed item
ReinsertCursor ==
    /\ item.held
    /\ item.current \in Removed
    /\ misuse = 0
    /\ \/ n <= MaxN
       \/ stack[Len(stack)].k = item.current
       \/ Filling(item.current)
    /\ LET top == stack[Len(stack)].k = item.current
       IN  /\ nested' = (nested /\ top)
           /\ episode' = [episode EXCEPT
                              !.reverse = @ /\ top,
                              !.reinserting = TRUE,
                              !.reinserts = IF episode.phased
                                            THEN Append(@, item.current)
                                            ELSE @]
    /\ nodes' = ItemReinsert(nodes, item)
    /\ stack' = Without(stack, item.current)
    /\ last' = Call("reinsert", item.current, Entry(item.current).before)
    /\ res' = Outcome("reinsert", item.current, "ok")
    /\ born' = [born EXCEPT !.intact = FALSE]
    /\ UNCHANGED <<n, item, misuse>>

Reinsert == ReinsertCursor /\ UNCHANGED lvars

\* cursor.remove() on the sentinel or on an item that is already removed
RemoveMisuse ==
    /\ item.held
    /\ item.current = 0 \/ item.current \in Removed
    /\ misuse < MisuseBound
    /\ nodes' = ItemRemove(nodes, item)
    /\ misuse' = misuse + 1
    /\ last' = Call("remove", item.current, nodes)
    /\ res' = Outcome("remove", item.current, "ok")
    /\ born' = [born EXCEPT !.intact = FALSE]
    /\ UNCHANGED <<n, item, stack, episode, nested, lvars>>

\* cursor.reinsert() on the sentinel or on an item that is not removed
ReinsertMisuse ==
    /\ item.held
    /\ item.current \notin Removed
    /\ misuse < MisuseBound
    /\ nodes' = ItemReinsert(nodes, item)
    /\ misuse' = misuse + 1
    /\ last' = Call("reinsert", item.current, nodes)
    /\ res' = Outcome("reinsert", item.current, "ok")
    /\ born' = [born EXCEPT !.intact = FALSE]
    /\ UNCHANGED <<n, item, stack, episode, nested, lvars>>

Next ==
    \/ Items
    \/ ItemAt
    \/ Next_
    \/ Remove
    \/ Reinsert

\* The ring used by a caller that removes live items and reinserts removed
\* ones (in any order, on the rings up to MaxN).
Spec == Init /\ [][Next]_vars

AnyUseNext ==
    \/ Next
    \/ RemoveMisuse
    \/ ReinsertMisuse

\* The ring used by any caller.
AnyUseSpec == Init /\ [][AnyUseNext]_vars

\* --------------------------------------------------------- list actions

LRemoved == {lstack[i] : i \in 1..Len(lstack)}

\* self.grow(): SizedList's, or the default that does nothing
GrowHook == IF sized THEN Grow(headerSize) ELSE headerSize

\* self.shrink(): SizedList's, or the default that does nothing
ShrinkHook == IF sized THEN Shrink(headerSize)
              ELSE {[panic |-> FALSE, size |-> headerSize]}

ListCall(op, self, arg, r) ==
    /\ link' = r.lk
    /\ lres' = [op |-> op, self |-> self, arg |-> arg, out |-> r.out,
                val |-> r.val, pre |-> link, size |-> headerSize]

\* x.connect_self() on a node not yet connected; the first one is the header
ConnectSelfCall(x) ==
    /\ ~IsValid(link, x)
    /\ sized => (built.clean /\ ~built.header.some)
    /\ ListCall("connect_self", x, x, ConnectSelf(link, x))
    /\ touched' = touched \cup {x}
    /\ built' = IF built.clean /\ ~built.header.some
                THEN [built EXCEPT !.header = Some(x)]
                ELSE NoList
    /\ UNCHANGED <<lstack, sized, headerSize>>

ListConnectSelf == \E x \in ListNodes : ConnectSelfCall(x) /\ UNCHANGED rvars

\* x.prepend(&y) with a node y not yet connected, on a node x that is not
\* removed.  grow runs first, also when prepend then panics.  While a node is
\* removed, prepend is explored on the header of SizedList nodes and on nodes
\* never connected.
PrependCall(x, y) ==
    /\ x \notin LRemoved
    /\ ~IsValid(link, y)
    /\ \/ lstack = <<>>
       \/ ~IsValid(link, x)
       \/ sized
    /\ sized => (built.clean /\ built.header = Some(x))
    /\ ListCall("prepend", x, y, Prepend(link, x, y))
    /\ headerSize' = GrowHook
    /\ touched' = touched \cup {y}
    /\ built' = IF built.clean /\ built.header = Some(x)
                THEN [built EXCEPT
                          !.order = Append(@, y),
                          !.mixed = @ \/ lstack # <<>>,
                          !.stale = @ \/ \E r \in LRemoved :
                                             link[r].next = Some(x)]
                ELSE NoList
    /\ UNCHANGED <<lstack, sized>>

ListPrepend ==
    \E x \in ListNodes, y \in ListNodes : PrependCall(x, y) /\ UNCHANGED rvars

\* x.remove() on a node that is not removed.  shrink runs first: when it
\* panics nothing is written.
RemoveCall(x) ==
    /\ x \notin LRemoved
    /\ \E s \in ShrinkHook :
           LET r == IF s.panic THEN Panicked(link)
                    ELSE LinkedListRemove(link, x)
           IN  /\ sized => (built.clean /\ x \in Members)
               /\ ListCall("remove", x, x, r)
               /\ headerSize' = s.size
               /\ lstack' = IF r.out = "ok" THEN Append(lstack, x) ELSE lstack
               /\ built' = IF built.clean /\ x \in Members
                           THEN IF lstack = <<>>
                                THEN [built EXCEPT !.base = link, !.depth = 1]
                                ELSE [built EXCEPT
                                         !.depth = IF Len(lstack) >= @
                                                   THEN Len(lstack) + 1 ELSE @]
                           ELSE NoList
    /\ UNCHANGED <<touched, sized>>

ListRemove == \E x \in ListNodes : RemoveCall(x) /\ UNCHANGED rvars

\* x.reinsert() on the node removed last, or on a node never connected.
\* grow runs first, also when reinsert then panics.
ReinsertCall(x) ==
    /\ \/ lstack # <<>> /\ x = lstack[Len(lstack)]
       \/ ~IsValid(link, x)
    /\ sized => (built.clean /\ lstack # <<>> /\ x = lstack[Len(lstack)])
    /\ LET r == LinkedListReinsert(link, x)
       IN  /\ ListCall("reinsert", x, x, r)
           /\ lstack' = IF r.out = "ok" THEN SubSeq(lstack, 1, Len(lstack) - 1)
                        ELSE lstack
    /\ headerSize' = GrowHook
    /\ built' = IF built.clean /\ lstack # <<>> /\ x = lstack[Len(lstack)]
                THEN built
                ELSE NoList
    /\ UNCHANGED <<touched, sized>>

ListReinsert == \E x \in ListNodes : ReinsertCall(x) /\ UNCHANGED rvars

\* x.next()
ListNext ==
    \E x \in ListNodes :
        LET r == LinkedListNext(link, x)
        IN  /\ ListCall("next", x, x,
                        IF r.panic THEN Panicked(link) ELSE Returned(link, r.ref))
            /\ UNCHANGED <<rvars, lstack, touched, sized, headerSize, built>>

\* x.previous()
ListPrevious ==
    \E x \in ListNodes :
        LET r == LinkedListPrevious(link, x)
        IN  /\ ListCall("previous", x, x,
                        IF r.panic THEN Panicked(link) ELSE Returned(link, r.ref))
            /\ UNCHANGED <<rvars, lstack, touched, sized, headerSize, built>>

\* x.is_empty()
ListIsEmpty ==
    \E x \in ListNodes :
        /\ ListCall("is_empty", x, x, IsEmpty(link, x))
        /\ UNCHANGED <<rvars, lstack, touched, sized, headerSize, built>>

\* x.is_valid()
ListIsValid ==
    \E x \in ListNodes :
        /\ ListCall("is_valid", x, x, Returned(link, Bool(IsValid(link, x))))
        /\ UNCHANGED <<rvars, lstack, touched, sized, headerSize, built>>

ListNext_ ==
    \/ ListConnectSelf
    \/ ListPrepend
    \/ ListRemove
    \/ ListReinsert
    \/ ListNext
    \/ ListPrevious
    \/ ListIsEmpty
    \/ ListIsValid

\* The generic list of nodes with the default hooks; the ring stays the sentinel-only ring as constructed.
ListOnlyInit == RingInit({0}) /\ ListInit({FALSE})

ListSpec == ListOnlyInit /\ [][ListNext_]_vars

\* The list of SizedList nodes with its Header: nodes are prepended to the
\* one header, members removed, and removed members reinserted in stack
\* order.
SizedInit == RingInit({0}) /\ ListInit({TRUE})

SizedSpec == SizedInit /\ [][ListNext_]_vars

\* ------------------------------------------- ring and list side by side

\* The ring sizes for which the list has a node per item.
PairSizes == Sizes \cap ListNodes

\* The list is the header 0 with the nodes 1..n prepended in this order.
PairBuilt ==
    /\ built.clean /\ built.header = Some(0)
    /\ built.order = [i \in 1..n |-> i]

\* header.connect_self()
PairConnectSelf == ConnectSelfCall(0) /\ UNCHANGED rvars

\* header.prepend(x) for the next of x1, ..., xn
PairPrepend ==
    /\ Len(built.order) < n
    /\ PrependCall(0, Len(built.order) + 1)
    /\ UNCHANGED rvars

\* cursor.remove() on the ring and x.remove() on the list, for the item the
\* cursor is at and the node of the same number
PairRemove ==
    /\ PairBuilt
    /\ RemoveCursor
    /\ RemoveCall(item.current)

\* cursor.reinsert() on the ring and x.reinsert() on the list, for the item
\* removed last and the node of the same number
PairReinsert ==
    /\ PairBuilt
    /\ stack # <<>> /\ stack[Len(stack)].k = item.current
    /\ ReinsertCursor
    /\ ReinsertCall(item.current)

PairNext ==
    \/ PairConnectSelf
    \/ PairPrepend
    \/ ItemAt
    \/ Next_
    \/ PairRemove
    \/ PairReinsert

PairInit == RingInit(PairSizes) /\ ListInit({FALSE})

\* Items::new(n) beside the list header.connect_self(), header.prepend(x1),
\* ..., header.prepend(xn), with the same properly nested removes and
\* reinserts applied to both.
PairSpec == PairInit /\ [][PairNext]_vars

\* ------------------------------------------------------ reading the ring

\* Every call so far kept the stack discipline.
Disciplined == nested /\ misuse = 0

RECURSIVE NextWalk(_, _, _, _)
\* The nodes met following next from `from` until `stop`; ends in Diverges
\* when stop is not met within fuel steps.
NextWalk(nds, from, stop, fuel) ==
    IF from = stop THEN <<>>
    ELSE IF fuel = 0 THEN <<Diverges>>
    ELSE <<from>> \o NextWalk(nds, nds[from].next, stop, fuel - 1)

RECURSIVE PreviousWalk(_, _, _, _)
PreviousWalk(nds, from, stop, fuel) ==
    IF from = stop THEN <<>>
    ELSE IF fuel = 0 THEN <<Diverges>>
    ELSE <<from>> \o PreviousWalk(nds, nds[from].previous, stop, fuel - 1)

\* The ring order: the nodes after the sentinel, following next.
RingOrder(nds) == NextWalk(nds, nds[0].next, 0, Cardinality(DOMAIN nds))

RECURSIVE Ascending(_)
Ascending(S) ==
    IF S = {} THEN <<>>
    ELSE LET m == CHOOSE x \in S : \A y \in S : x <= y
         IN  <<m>> \o Ascending(S \ {m})

Reverse(s) == [i \in 1..Len(s) |-> s[Len(s) + 1 - i]]

Range(s) == {s[i] : i \in 1..Len(s)}

\* previous is the inverse of next on the nodes of S, which form one cycle.
OneCycle(nds, S) ==
    \A i \in S :
        /\ nds[nds[i].next].previous = i
        /\ nds[nds[i].previous].next = i
        /\ LET w == NextWalk(nds, nds[i].next, i, Cardinality(DOMAIN nds))
           IN  /\ Range(w) = S \ {i}
               /\ Len(w) = Cardinality(S) - 1
               /\ PreviousWalk(nds, nds[i].previous, i, Cardinality(DOMAIN nds))
                      = Reverse(w)

\* ------------------------------------------------------------- the ring

\* C1  Round-trip law.  Under the stack discipline every reinsert leaves the
\* whole nodes array equal to what it was before the matching removal; hence
\* when the last removed item is back, the array equals what it was before
\* the first removal, and a run of removals k1..km undone in the order km..k1
\* restores every previous and next field.
RoundTrip ==
    (Disciplined /\ last.op = "reinsert") =>
        /\ nodes = last.undone
        /\ stack = <<>> => nodes = episode.base

\* A ring of three or more items, all removed and reinserted in exact reverse
\* order.
RoundTripWitness ==
    /\ Disciplined /\ last.op = "reinsert" /\ stack = <<>>
    /\ episode.phased
    /\ Len(episode.removes) >= 3
    /\ episode.reinserts = Reverse(episode.removes)

\* C2  Items::new(n) gives n+1 nodes, node i pointing at (i-1) mod (n+1) and
\* (i+1) mod (n+1), also for n = 0.
NewRing ==
    res.op = "new" =>
        /\ DOMAIN nodes = 0..n
        /\ \A i \in 0..n :
               /\ nodes[i].previous = (i - 1) % (n + 1)
               /\ nodes[i].next = (i + 1) % (n + 1)

\* The sentinel-only ring.
NewRingWitness == res.op = "new" /\ n = 0 /\ nodes[0].previous = 0

\* C3  Under the stack discipline items().count() is n minus the number of
\* removed items and the walk from the sentinel meets exactly the items not
\* removed, in ascending order; with the counts and orders of the n = 7
\* scenario (remove 1, remove 2, reinsert 2, reinsert 1).
CountAndOrder ==
    Disciplined =>
        /\ ItemsCount(nodes) = n - Len(stack)
        /\ RingOrder(nodes) = Ascending(Live \ {0})
        /\ Removed = 1..n => ItemsCount(nodes) = 0
        /\ n = TestSize =>
               /\ Ks = <<1>> => /\ ItemsCount(nodes) = 6
                                /\ RingOrder(nodes) = <<2, 3, 4, 5, 6, 7>>
               /\ Ks = <<1, 2>> => /\ ItemsCount(nodes) = 5
                                   /\ RingOrder(nodes) = <<3, 4, 5, 6, 7>>
               /\ Ks = <<>> => /\ ItemsCount(nodes) = 7
                               /\ RingOrder(nodes) = <<1, 2, 3, 4, 5, 6, 7>>

\* The end of the n = 7 scenario.
CountAndOrderWitness ==
    /\ Disciplined /\ n = TestSize /\ stack = <<>>
    /\ episode.removes = <<1, 2>> /\ episode.reinserts = <<2, 1>>
    /\ last.op = "reinsert" /\ last.arg = 1

\* C4  items().count() on a fresh ring is n.
FreshCount == res.op = "new" => ItemsCount(nodes) = n

\* The fresh ring of the tests.
FreshCountWitness == res.op = "new" /\ n = TestSize /\ ItemsCount(nodes) = 7

\* C5  On a ring as constructed: after remove of item k the count is n-1;
\* after reinsert of k as the very next remove/reinsert call the count is n
\* and every node is as before the removal.
RemoveThenReinsert ==
    /\ (last.op = "remove" /\ last.pre = ItemsNew(n)) =>
           ItemsCount(nodes) = n - 1
    /\ (/\ last.op = "reinsert"
        /\ last.prior = [op |-> "remove", arg |-> last.arg]
        /\ last.undone = ItemsNew(n)) =>
           /\ ItemsCount(nodes) = n
           /\ nodes = last.undone

\* The test reinsertable: item 1 of the ring of 7 removed and put back.
RemoveThenReinsertWitness ==
    /\ n = TestSize
    /\ last.op = "reinsert" /\ last.arg = 1
    /\ last.prior = [op |-> "remove", arg |-> 1]
    /\ last.undone = ItemsNew(n)

\* C6  Circularity.  Under the stack discipline the sentinel and the items
\* not removed form one cycle under next and the reverse cycle under
\* previous, with no removed node on it.
Circular == Disciplined => OneCycle(nodes, Live)

\* Two items removed, a third one live.
CircularWitness ==
    Disciplined /\ Len(stack) = 2 /\ Cardinality(Live) >= 2

\* C7  A removal writes only the next of the removed node's previous and the
\* previous of its next, and not the removed node; while an item is removed,
\* the disciplined removals and reinserts of other items leave its own
\* previous and next as they were when it was removed.
RemovedLinksIntact ==
    /\ last.op = "remove" =>
           LET k == last.arg
               p == last.pre[k].previous
               q == last.pre[k].next
           IN  /\ nodes[k] = last.pre[k]
               /\ \A i \in 0..n :
                      /\ i # p => nodes[i].next = last.pre[i].next
                      /\ i # q => nodes[i].previous = last.pre[i].previous
    /\ Disciplined =>
           \A e \in Range(stack) : nodes[e.k] = e.before[e.k]

\* An item still removed after a neighbour of it was removed and reinserted.
RemovedLinksIntactWitness ==
    /\ Disciplined /\ Len(stack) = 1 /\ last.op = "reinsert"
    /\ last.arg \in {stack[1].before[stack[1].k].previous,
                     stack[1].before[stack[1].k].next}
    /\ last.arg # 0

\* Following next from the sentinel returns to the sentinel, and previous is
\* the inverse of next along that cycle.
Connected(nds) ==
    LET w == RingOrder(nds)
    IN  /\ Diverges \notin Range(w)
        /\ \A i \in Range(w) \cup {0} : nds[nds[i].next].previous = i

\* Distinct items were removed and then all reinserted, in an order that is
\* not the exact reverse of the removal order.
OutOfOrderDone ==
    /\ misuse = 0 /\ stack = <<>> /\ last.op = "reinsert"
    /\ episode.phased
    /\ Len(episode.reinserts) = Len(episode.removes)
    /\ episode.reinserts # Reverse(episode.removes)

\* C8 as claimed: after an out-of-order reinsertion the ring is structurally
\* connected and some node has other neighbours than before the removals.
OutOfOrderConnectedButWrong ==
    OutOfOrderDone => (Connected(nodes) /\ nodes # episode.base)

\* C8 amended: after an out-of-order reinsertion following next from the
\* sentinel returns to the sentinel, and either every node has exactly the
\* neighbours it had before the removals, or previous is not the inverse of
\* next at some node of the array (the ring may then be connected along the
\* sentinel's cycle or not).
OutOfOrderRestoredOrBroken ==
    OutOfOrderDone =>
        /\ Diverges \notin Range(RingOrder(nodes))
        /\ \/ nodes = episode.base
           \/ \E i \in 0..n : nodes[nodes[i].next].previous # i

\* An out-of-order reinsertion that leaves a ring with wrong neighbours.
OutOfOrderWitness == OutOfOrderDone /\ nodes # episode.base

\* C10 as claimed: a cursor request for index 0 or an index above n fails
\* without touching the ring, and no remove or reinsert was ever executed
\* with current = 0.
SentinelNeverTarget ==
    /\ res.op = "item" =>
           /\ res.out = "panic" <=> (res.arg = 0 \/ res.arg > n)
           /\ res.out = "panic" => nodes = res.pre
    /\ ~(last.op \in {"remove", "reinsert"} /\ last.arg = 0)

\* ------------------------------------------------------- the generic list

NeighbourReads == {"next", "previous", "is_empty", "remove", "reinsert", "prepend"}

\* C9  A node from Link::uninitialized() is not valid until connect_self is
\* called on it or prepend is given it; while it is not valid, next,
\* previous, is_empty, remove, reinsert and prepend on it panic and leave
\* every link as it was; after connect_self it is valid and empty.
UninitializedFails ==
    /\ \A x \in ListNodes \ touched : ~IsValid(link, x)
    /\ (lres.op = "is_valid" /\ lres.self \notin touched) => lres.val = Bool(FALSE)
    /\ (lres.op \in NeighbourReads /\ ~IsValid(lres.pre, lres.self)) =>
           /\ lres.out = "panic"
           /\ link = lres.pre
    /\ lres.op = "connect_self" =>
           /\ IsValid(link, lres.self)
           /\ IsEmpty(link, lres.self) = Returned(link, Bool(TRUE))

\* remove() on a node never connected, beside a list of two nodes.
UninitializedFailsWitness ==
    /\ lres.op = "remove" /\ lres.out = "panic"
    /\ ~IsValid(link, lres.self)
    /\ Cardinality(touched) >= 2

\* ------------------------------------------------- reading the list

RECURSIVE ListWalk(_, _, _, _)
\* The nodes met following next from `from` until `stop`; ends in Diverges
\* when stop is not met within fuel steps or an empty slot is met.
ListWalk(lk, from, stop, fuel) ==
    IF from = stop THEN <<>>
    ELSE IF fuel = 0 \/ ~lk[from].next.some THEN <<Diverges>>
    ELSE <<from>> \o ListWalk(lk, lk[from].next.ref, stop, fuel - 1)

\* The nodes after x, following next, up to x.
ListOrder(lk, x) == ListWalk(lk, lk[x].next.ref, x, Cardinality(ListNodes))

\* previous is the inverse of next at every node of S.
Inverse(lk, S) ==
    \A x \in S :
        /\ lk[lk[x].next.ref].previous = Some(x)
        /\ lk[lk[x].previous.ref].next = Some(x)

\* Every call so far was one of: connect_self on the header, prepend of a
\* fresh node to the header, remove of a member, reinsert of the member
\* removed last, or a query.
Built == built.clean /\ built.header.some

\* C11  For a header initialised with connect_self and nodes x1..xm prepended
\* to it (none of them while a node was removed): a prepend makes its
\* argument the header's previous; whenever no node is removed, every node
\* is valid, next from the header gives x1, ..., xm and then the header, and
\* previous is the exact inverse of next.
HeaderPrepends ==
    Built =>
        LET h == built.header.ref
        IN  /\ lres.op = "prepend" =>
                   /\ lres.out = "ok"
                   /\ link[h].previous = Some(lres.arg)
                   /\ link[lres.arg].next = Some(h)
                   /\ link[lres.arg].previous = lres.pre[h].previous
            /\ (lstack = <<>> /\ ~built.mixed) =>
                   /\ \A x \in {h} \cup Members : IsValid(link, x)
                   /\ ListOrder(link, h) = built.order
                   /\ Inverse(link, {h} \cup Members)

\* A header with two nodes just prepended.
HeaderPrependsWitness ==
    /\ Built /\ lres.op = "prepend" /\ Len(built.order) >= 2
    /\ lstack = <<>> /\ ~built.mixed
    /\ built.base = NoList.base

\* C12  On a list built by connect_self and prepend, remove makes the two
\* neighbours of the removed node point at each other and leaves the removed
\* node's own next and previous as they were; when the members removed since
\* no node was removed are all reinserted, each as the one removed last,
\* every node's next and previous are what they were before the first
\* removal.
ReversibleRemoval ==
    /\ (lres.op = "remove" /\ lres.out = "ok") =>
           LET x == lres.self
               p == lres.pre[x].previous.ref
               q == lres.pre[x].next.ref
           IN  /\ link[p].next = Some(q)
               /\ link[q].previous = Some(p)
               /\ link[x] = lres.pre[x]
    /\ (Built /\ lres.op = "remove") => lres.out = "ok"
    /\ (Built /\ ~built.mixed /\ lres.op = "reinsert") =>
           /\ lres.out = "ok"
           /\ lstack = <<>> => link = built.base

\* Two members removed and reinserted in reverse order.
ReversibleRemovalWitness ==
    /\ Built /\ ~built.mixed /\ lres.op = "reinsert" /\ lstack = <<>>
    /\ built.depth >= 2

\* The number of nodes other than x met following next from x.
ReachableCount(lk, x) == Cardinality(Range(ListOrder(lk, x)) \ {x, Diverges})

\* prepend and reinsert add one to the counter, remove takes one off.
HooksCount ==
    /\ lres.op \in {"prepend", "reinsert"} => headerSize = lres.size + 1
    /\ lres.op = "remove" => (lres.out = "ok" /\ headerSize = lres.size - 1)

\* C13 as claimed: with SizedList's hooks, prepend and reinsert add one to
\* the counter and remove takes one off; after any sequence of prepends of
\* fresh nodes, removes of members and reinserts in stack order the counter
\* is the number of non-header nodes reachable from the header via next, and
\* it is never below zero.
SizeIsReachableCount ==
    /\ HooksCount
    /\ headerSize >= 0
    /\ Built => headerSize = ReachableCount(link, built.header.ref)

\* C13 amended: the same, for the sequences in which no node is prepended
\* while a removed node's next is the header.
SizeIsReachableCountUnlessStale ==
    /\ HooksCount
    /\ headerSize >= 0
    /\ (Built /\ ~built.stale) =>
           headerSize = ReachableCount(link, built.header.ref)

\* Two members removed and reinserted in stack order, the counter back at 2.
SizeWitness ==
    /\ sized /\ Built /\ ~built.stale
    /\ lres.op = "reinsert" /\ lstack = <<>> /\ built.depth >= 2
    /\ headerSize = 2

\* What header.is_empty() returns in this state, what it says about the
\* header's own slots and about the nodes reachable from the header.
EmptyAgrees(h) ==
    LET e == IsEmpty(link, h)
    IN  /\ e.out = "ok"
        /\ e.val = Bool(TRUE) <=>
               (link[h].next = Some(h) /\ link[h].previous = Some(h))
        /\ e.val = Bool(TRUE) <=> ReachableCount(link, h) = 0
        /\ (lres.op = "is_empty" /\ lres.self = h) => lres.val = e.val

\* C14 as claimed: in every state reached from connect_self on a header by
\* prepends of fresh nodes and properly nested remove/reinsert of members,
\* header.is_empty() is true exactly when every prepended node is removed,
\* which is when no other node is reachable from the header and when the
\* header's next and previous are both the header.
EmptyIffAllRemoved ==
    Built =>
        /\ EmptyAgrees(built.header.ref)
        /\ IsEmpty(link, built.header.ref).val = Bool(TRUE) <=>
               Members \subseteq LRemoved

\* C14 amended: the same, for the sequences in which no node is prepended
\* while a removed node's next is the header.
EmptyIffAllRemovedUnlessStale ==
    (Built /\ ~built.stale) =>
        /\ EmptyAgrees(built.header.ref)
        /\ IsEmpty(link, built.header.ref).val = Bool(TRUE) <=>
               Members \subseteq LRemoved

\* header.is_empty() returning true with two prepended nodes, both removed.
EmptyWitness ==
    /\ Built /\ ~built.stale
    /\ lres.op = "is_empty" /\ lres.self = built.header.ref
    /\ lres.val = Bool(TRUE)
    /\ Len(lstack) >= 2

\* ------------------------------------------------------ the cursor

\* C15  In every state reached from Items::new(n) by properly nested
\* remove/reinsert, with L = n minus the number of removed items: calling
\* next() on the cursor from items(), or from item(k) for an item k that is
\* not removed, until it returns None takes exactly L advances; a cursor so
\* made and advanced while the ring stays as it is has made L advances when
\* next() returns None, and never more than L.
IterationTerminates ==
    Disciplined =>
        LET L    == n - Len(stack)
            fuel == Cardinality(DOMAIN nodes)
        IN  /\ L <= n
            /\ CountFrom(nodes, ItemsItems(nodes), fuel) = L
            /\ \A k \in Live \ {0} :
                   CountFrom(nodes, ItemsItem(nodes, k), fuel) = L
            /\ (res.op = "next" /\ born.intact /\ born.current \in Live) =>
                   /\ born.steps <= L
                   /\ res.out = "None" => born.steps = L

\* A cursor from item(k), with another item removed, advanced until next()
\* returned None.
IterationTerminatesWitness ==
    /\ Disciplined /\ Len(stack) >= 1
    /\ res.op = "next" /\ res.out = "None"
    /\ born.intact /\ born.current \in Live \ {0}
    /\ born.steps = n - Len(stack) /\ born.steps >= 2

\* The last call was remove() or reinsert() on the cursor from item(k).
CursorWrote == res.op \in {"remove", "reinsert"} /\ born.current # 0

\* C16 as claimed: for a cursor from item(k), with p and q the previous and
\* next node k had when the cursor was made, reinsert() sets nodes[p].next and
\* nodes[q].previous to current and remove() sets nodes[p].next to q and
\* nodes[q].previous to p, also when next() has advanced the cursor since.
UsesNeighboursAtConstruction ==
    CursorWrote =>
        LET p == born.previous
            q == born.next
        IN  /\ res.op = "reinsert" => /\ nodes[p].next = res.arg
                                      /\ nodes[q].previous = res.arg
            /\ res.op = "remove" => /\ nodes[p].next = q
                                    /\ nodes[q].previous = p

\* C16 amended: p and q are the previous and next of the node the cursor is
\* at, read when remove() or reinsert() is called; no other field of the
\* ring is written; for a cursor that next() has not advanced they are the
\* values node k had when the cursor was made.
UsesNeighboursAtCall ==
    CursorWrote =>
        LET c == res.arg
            p == res.pre[c].previous
            q == res.pre[c].next
        IN  /\ res.op = "reinsert" => /\ nodes[p].next = c
                                      /\ nodes[q].previous = c
            /\ res.op = "remove" => /\ nodes[p].next = q
                                    /\ nodes[q].previous = p
            /\ \A i \in 0..n :
                   /\ i # p => nodes[i].next = res.pre[i].next
                   /\ i # q => nodes[i].previous = res.pre[i].previous
            /\ born.steps = 0 =>
                   /\ c = born.current
                   /\ p = born.previous
                   /\ q = born.next

\* reinsert() on a cursor that was made at one removed item and advanced to
\* another, whose neighbours are not those of the first.
UsesNeighboursWitness ==
    /\ CursorWrote /\ res.op = "reinsert"
    /\ born.steps >= 1 /\ res.arg # born.current
    /\ res.pre[res.arg].next # born.next

\* ------------------------------------------- emptying and filling

\* Items 1..n were removed from the ring as constructed, in ascending order,
\* and none removed after a reinsertion.
EmptiedAscending ==
    /\ n >= 1 /\ misuse = 0
    /\ episode.phased /\ episode.base = ItemsNew(n)
    /\ episode.removes = [i \in 1..n |-> i]

\* C17  For n >= 1, from Items::new(n): after the removal of items 1, ..., n
\* in ascending order items().count() is 0, and after their reinsertion in
\* the same ascending order items().count() is n.
EmptiedAndFilledAscending ==
    EmptiedAscending =>
        /\ episode.reinserts = <<>> => ItemsCount(nodes) = 0
        /\ episode.reinserts = [i \in 1..n |-> i] => ItemsCount(nodes) = n

\* The end of the test emptyable.
EmptiedAndFilledWitness ==
    /\ EmptiedAscending /\ n = TestSize
    /\ episode.reinserts = <<1, 2, 3, 4, 5, 6, 7>>
    /\ res.op = "reinsert" /\ res.arg = 7

\* ------------------------------------------------- the same algorithm

\* Node a's next is node b in the list exactly when it is in the ring, and
\* likewise previous.
Corresponds ==
    \A a \in 0..n :
        /\ link[a].next = Some(nodes[a].next)
        /\ link[a].previous = Some(nodes[a].previous)

\* C18  The list built as header.connect_self(), header.prepend(x1), ...,
\* header.prepend(xn) and Items::new(n), with xi as index i and the header as
\* index 0, are in correspondence once built and after every properly
\* nested sequence of remove/reinsert of non-header nodes applied to both.
RingAndListCorrespond == (PairBuilt /\ Disciplined) => Corresponds

\* Both with two items removed and one of them reinserted.
RingAndListWitness ==
    /\ PairBuilt /\ Disciplined
    /\ last.op = "reinsert" /\ lres.op = "reinsert"
    /\ Len(stack) = 1 /\ lstack = <<stack[1].k>>
    /\ built.depth >= 2

=============================================================================
